---- MODULE Spec2Model ----
(***************************************************************************)
(* RouteSafe-AI: the bridge engine (backend/bridge_engine.py).             *)
(*                                                                         *)
(* Units.  Lengths on the ground are integers in units of 10 m, heights    *)
(* and clearances are integers in centimetres.  A latitude or longitude    *)
(* is given by its arc length EARTH_RADIUS_M * radians, in the same 10 m   *)
(* unit, measured from a reference point of the region the CSV covers      *)
(* (the projection of _latlon_to_xy_m is linear, so only differences       *)
(* count).  The region is small, so cos(mid_lat_rad) is one rational       *)
(* number for the whole region (the variable band).  Longitudes lie on a   *)
(* grid whose step is 10 m on the ground at the region's latitude, which   *)
(* keeps the projection exact in integers.  Squared distances are kept as  *)
(* exact rationals; floating-point rounding is not modelled.               *)
(***************************************************************************)
EXTENDS Integers, Sequences, FiniteSets, TLC

VARIABLES band, csv, engine, call, threads, api

vars == <<band, csv, engine, call, threads, api>>

\* ------------------------------------------------------------------ bounds
MaxRows == 2

\* ------------------------------------------------------- program constants
\* search_radius_m = 300.0 (in units of 10 m)
SEARCH_RADIUS == 30
\* conflict_clearance_m = 0.0 (cm)
CONFLICT_CLEARANCE == 0
\* near_clearance_m = 0.25 (cm)
NEAR_CLEARANCE == 25
\* deg_per_m_lat = 1.0 / 111000.0
BOX_M_PER_DEG == 111000
\* EARTH_RADIUS_M * pi / 180 = 111194.93 m of arc per degree (math.radians)
ARC_M_PER_DEG == 111195

\* ------------------------------------------------------------- CSV cells
Num(v) == [k |-> "num", v |-> v]
NA == [k |-> "na", v |-> 0]
BAD == [k |-> "str", v |-> 0]

IsNum(c) == c.k = "num"

Row(lat, lon, h) == [lat |-> lat, lon |-> lon, height_m |-> h]

\* ------------------------------------------------- the region's latitude
\* cos(mid_lat_rad) as a rational <<numerator, denominator>>:
\* 60 degrees (cos = 1/2) and 87.13 degrees (cos = 1/20 < 0.1).
Bands == {"lat60", "lat87"}

Cos(b) == IF b = "lat60" THEN <<1, 2>> ELSE <<1, 20>>

\* longitude arc per 10 m on the ground at the region's latitude
LonStep(b) == Cos(b)[2] \div Cos(b)[1]

\* A point given by its latitude arc and its ground offset east.
Pt(b, lat, east) == [lat |-> lat, lon |-> east * LonStep(b)]

\* ground offsets (north, east) of the bridges the CSV may list, in 10 m
BridgePoints(b) ==
    { Pt(b, 0, 20), Pt(b, 30, 20), Pt(b, 0, 70), Pt(b, 25, 60), Pt(b, 0, -10) }

BridgeHeights == {450, 475}

ValidRows(b) ==
    { Row(Num(p.lat), Num(p.lon), Num(h)) : p \in BridgePoints(b), h \in BridgeHeights }

\* rows with an empty cell (read as NaN) or a non-numeric string in a cell
MalformedRows(b) ==
    LET p == Pt(b, 0, 20)
    IN  { Row(NA, Num(p.lon), Num(475)), Row(Num(p.lat), Num(p.lon), NA),
          Row(BAD, Num(p.lon), Num(475)), Row(Num(p.lat), Num(p.lon), BAD) }

\* a row whose height is a finite number but not a positive one
DegenerateRows(b) ==
    LET p == Pt(b, 0, 20)
    IN  { Row(Num(p.lat), Num(p.lon), Num(0)) }

RowSpace(b) == ValidRows(b) \cup MalformedRows(b) \cup DegenerateRows(b)

SeqsUpTo(S, n) == UNION { [1..m -> S] : m \in 0..n }

CleanHeader == {"lat", "lon", "height_m"}
AliasHeader == {"latitude", "longitude", "height"}

MissingFile == [exists |-> FALSE, header |-> {}, rows |-> <<>>]

Files(b) ==
    {MissingFile} \cup
    { [exists |-> TRUE, header |-> h, rows |-> rs] :
        h \in {CleanHeader, AliasHeader}, rs \in SeqsUpTo(RowSpace(b), MaxRows) }

\* legs (start, end) and vehicle heights of the calls
Legs(b) ==
    { <<Pt(b, 0, 0), Pt(b, 0, 0)>>, <<Pt(b, 0, 0), Pt(b, 0, 40)>>,
      <<Pt(b, 0, 0), Pt(b, 40, 30)>> }

VehicleHeights == {-50, 0, 425, 450, 460, 475, 500}

\* --------------------------------------------------- BridgeEngine.__init__
REQUIRED_COLS == {"lat", "lon", "height_m"}

RowHasNa(r) == r.lat.k = "na" \/ r.lon.k = "na" \/ r.height_m.k = "na"

\* DataFrame.dropna(): the rows without a NaN cell, in file order
DropNa(rows) == SelectSeq(rows, LAMBDA r : ~RowHasNa(r))

\* pd.read_csv: a column holding a non-numeric string is of dtype object,
\* and every cell of it that is not NaN is a str
ObjectCols(rows) ==
    (IF \E i \in 1..Len(rows) : rows[i].lat.k = "str" THEN {"lat"} ELSE {}) \cup
    (IF \E i \in 1..Len(rows) : rows[i].lon.k = "str" THEN {"lon"} ELSE {}) \cup
    (IF \E i \in 1..Len(rows) : rows[i].height_m.k = "str" THEN {"height_m"} ELSE {})

Unbuilt == [state |-> "unbuilt", bridges_df |-> <<>>, object_cols |-> {}]

Failed(exc) == [state |-> exc, bridges_df |-> <<>>, object_cols |-> {}]

BridgeEngineInit(f) ==
    IF ~f.exists THEN Failed("FileNotFoundError")
    ELSE IF REQUIRED_COLS \ f.header # {} THEN Failed("ValueError")
    ELSE [state |-> "ready", bridges_df |-> DropNa(f.rows),
          object_cols |-> ObjectCols(f.rows)]

\* ------------------------------------------------------------ geo helpers
Min(x, y) == IF x <= y THEN x ELSE y
Max(x, y) == IF x >= y THEN x ELSE y

\* x = EARTH_RADIUS_M * lon_rad * cos(ref_lat_rad), y = EARTH_RADIUS_M * lat_rad
latlon_to_xy_m(lat, lon, c) == <<(lon * c[1]) \div c[2], lat>>

\* seg_len2 of the leg A -> B
SegLen2(a, b) == (b[1] - a[1]) * (b[1] - a[1]) + (b[2] - a[2]) * (b[2] - a[2])

\* Squared distances to the leg A -> B are rationals over this denominator.
DistDen(a, b) == IF SegLen2(a, b) = 0 THEN 1 ELSE SegLen2(a, b)

\* mutant: t is not clamped (the distance to the line through A and B)
point_to_segment_distance2_NoClamp(p, a, b) ==
    LET vx == b[1] - a[1]
        vy == b[2] - a[2]
        wx == p[1] - a[1]
        wy == p[2] - a[2]
        seg_len2 == vx * vx + vy * vy
        dot == wx * vx + wy * vy
    IN  IF seg_len2 = 0 THEN wx * wx + wy * wy
        ELSE (wx * wx + wy * wy) * seg_len2 - dot * dot

\* The square of _point_to_segment_distance_m, times DistDen(a, b).
\* t = dot / seg_len2, so t < 0 iff dot < 0 and t > 1 iff dot > seg_len2;
\* with 0 <= t <= 1 the closest point is A + t v and the squared distance is
\* |w|^2 - dot^2 / seg_len2.
point_to_segment_distance2(p, a, b) ==
    LET vx == b[1] - a[1]
        vy == b[2] - a[2]
        wx == p[1] - a[1]
        wy == p[2] - a[2]
        seg_len2 == vx * vx + vy * vy
        dot == wx * vx + wy * vy
    IN  IF seg_len2 = 0 THEN wx * wx + wy * wy
        ELSE IF dot < 0 THEN (wx * wx + wy * wy) * seg_len2
        ELSE IF dot > seg_len2
             THEN ((p[1] - b[1]) * (p[1] - b[1]) + (p[2] - b[2]) * (p[2] - b[2])) * seg_len2
        ELSE (wx * wx + wy * wy) * seg_len2 - dot * dot

\* ---------------------------------------------------------------- check_leg
\* max(math.cos(mid_lat_rad), 0.1)
ClampCos(c) == IF c[1] * 10 >= c[2] THEN c ELSE <<1, 10>>

\* lat_min <= lat <= lat_max for a cell of the lat column.  Degrees are arc
\* lengths divided by ARC_M_PER_DEG, and d_lat = search_radius_m / 111000.
LatInBox(lat, start, end) ==
    /\ (lat - Min(start.lat, end.lat)) * BOX_M_PER_DEG >= -(SEARCH_RADIUS * ARC_M_PER_DEG)
    /\ (Max(start.lat, end.lat) - lat) * BOX_M_PER_DEG >= -(SEARCH_RADIUS * ARC_M_PER_DEG)

\* lon_min <= lon <= lon_max, with d_lon = search_radius_m / (111000 * max(cos, 0.1))
LonInBox(lon, start, end, c) ==
    LET mc == ClampCos(c)
    IN  /\ (lon - Min(start.lon, end.lon)) * BOX_M_PER_DEG * mc[1]
               >= -(SEARCH_RADIUS * ARC_M_PER_DEG * mc[2])
        /\ (Max(start.lon, end.lon) - lon) * BOX_M_PER_DEG * mc[1]
               >= -(SEARCH_RADIUS * ARC_M_PER_DEG * mc[2])

\* the rows of bridges_df inside the padded box, in catalog order
Candidates(df, start, end, c) ==
    SelectSeq(df, LAMBDA r : LatInBox(r.lat.v, start, end) /\ LonInBox(r.lon.v, start, end, c))

\* mutant: the radius test never excludes a candidate
TooFar_Never(d2, den) == FALSE

\* dist_m > self.search_radius_m, for dist_m^2 = d2 / den
TooFar(d2, den) == d2 > SEARCH_RADIUS * SEARCH_RADIUS * den

\* mutant: the None case of the nearest test is forgotten
IsNearer_NoneForgotten(d2, nearest) == nearest # <<>> /\ d2 < nearest[1]

\* nearest_distance_m is None or dist_m < nearest_distance_m
IsNearer(d2, nearest) == nearest = <<>> \/ d2 < nearest[1]

\* mutant: the conflict test is strict
IsConflict_Strict(clearance) == clearance < CONFLICT_CLEARANCE

\* clearance <= self.conflict_clearance_m
IsConflict(clearance) == clearance <= CONFLICT_CLEARANCE

\* mutant: the near test is strict
IsNear_Strict(clearance) == clearance < NEAR_CLEARANCE

\* clearance <= self.near_clearance_m
IsNear(clearance) == clearance <= NEAR_CLEARANCE

\* mutant: an empty corridor is reported as a conflict
EmptyResult_FailClosed ==
    [raised |-> "none", has_conflict |-> TRUE, near_height_limit |-> TRUE,
     nearest_bridge |-> <<>>, nearest_distance_m |-> <<>>]

\* the result returned when no bridge is near the corridor
EmptyResult ==
    [raised |-> "none", has_conflict |-> FALSE, near_height_limit |-> FALSE,
     nearest_bridge |-> <<>>, nearest_distance_m |-> <<>>]

Raised(exc) == [EmptyResult EXCEPT !.raised = exc]

Bridge(row) == [lat |-> row.lat.v, lon |-> row.lon.v, height_m |-> row.height_m.v]

\* mutant: a conflict does not set the near flag
HeightChecks_ConflictOnly(acc, clearance) ==
    IF IsConflict(clearance) THEN [acc EXCEPT !.has_conflict = TRUE]
    ELSE IF IsNear(clearance) THEN [acc EXCEPT !.near_height_limit = TRUE]
    ELSE acc

\* the height checks of one in-range bridge
HeightChecks(acc, clearance) ==
    IF IsConflict(clearance)
    THEN [acc EXCEPT !.has_conflict = TRUE, !.near_height_limit = TRUE]
    ELSE IF IsNear(clearance) THEN [acc EXCEPT !.near_height_limit = TRUE]
    ELSE acc

\* mutant: the clearance is taken the wrong way round
ClearanceOf_Swapped(b_h, vehicle_height_m) == vehicle_height_m - b_h

\* clearance = b_h - vehicle_height_m
ClearanceOf(b_h, vehicle_height_m) == b_h - vehicle_height_m

\* one iteration of the loop over the candidates
LoopBody(acc, row, a, b, c, vehicle_height_m) ==
    IF ~IsNum(row.height_m) THEN Raised("ValueError")
    ELSE
    LET p == latlon_to_xy_m(row.lat.v, row.lon.v, c)
        d2 == point_to_segment_distance2(p, a, b)
        clearance == ClearanceOf(row.height_m.v, vehicle_height_m)
        acc1 == IF IsNearer(d2, acc.nearest_distance_m)
                THEN [acc EXCEPT !.nearest_distance_m = <<d2>>,
                                 !.nearest_bridge = <<Bridge(row)>>]
                ELSE acc
    IN  IF TooFar(d2, DistDen(a, b)) THEN acc
        ELSE HeightChecks(acc1, clearance)

RECURSIVE Loop(_, _, _, _, _, _, _)
Loop(cands, i, acc, a, b, c, vehicle_height_m) ==
    IF i > Len(cands) \/ acc.raised # "none" THEN acc
    ELSE Loop(cands, i + 1, LoopBody(acc, cands[i], a, b, c, vehicle_height_m),
              a, b, c, vehicle_height_m)

\* the accumulators before the loop
LoopStart ==
    [raised |-> "none", has_conflict |-> FALSE, near_height_limit |-> FALSE,
     nearest_bridge |-> <<>>, nearest_distance_m |-> <<>>]

check_leg(e, start, end, vehicle_height_m, c) ==
    IF e.bridges_df # <<>> /\ e.object_cols \cap {"lat", "lon"} # {}
    THEN Raised("TypeError")
    ELSE
    LET candidates == Candidates(e.bridges_df, start, end, c)
        a == latlon_to_xy_m(start.lat, start.lon, c)
        b == latlon_to_xy_m(end.lat, end.lon, c)
    IN  IF candidates = <<>> THEN EmptyResult
        ELSE Loop(candidates, 1, LoopStart, a, b, c, vehicle_height_m)

\* ------------------------------------------------------------ state machine
NoCall == [made |-> FALSE, start |-> [lat |-> 0, lon |-> 0], end |-> [lat |-> 0, lon |-> 0],
           vehicle_height_m |-> 0, result |-> EmptyResult]

\* the state of the /api/route handler before any request
NoDetail == [kind |-> "none", profile |-> "", status |-> 0]

\* get_hgv_route_metrics has neither returned nor raised
NoOutcome == [outcome |-> "none", status_code |-> 0, detail |-> NoDetail, metrics |-> <<>>]

NoRequest ==
    [pc |-> "idle", key |-> TRUE, depot_postcode |-> "", stops |-> <<>>,
     vehicle_height_m |-> 0, postcodes |-> <<>>, points |-> <<>>, idx |-> 0,
     main_metrics |-> <<>>, has_low |-> FALSE, low_bridges |-> <<>>,
     requested |-> <<>>, ors |-> NoOutcome,
     legs_out |-> <<>>, status_code |-> 0, detail |-> ""]

\* the callers that share the one module-level engine
Callers == {1, 2}

\* the frame of a caller that is not inside check_leg
IdleFrame ==
    [pc |-> "idle", start |-> [lat |-> 0, lon |-> 0], end |-> [lat |-> 0, lon |-> 0],
     vehicle_height_m |-> 0, candidates |-> <<>>, i |-> 0, acc |-> LoopStart,
     overlapped |-> FALSE]

Init ==
    /\ band \in Bands
    /\ csv \in Files(band)
    /\ engine = Unbuilt
    /\ call = NoCall
    /\ threads = [t \in Callers |-> IdleFrame]
    /\ api = NoRequest

\* bridge_engine = BridgeEngine(BRIDGE_CSV_PATH)
Construct ==
    /\ engine.state = "unbuilt"
    /\ engine' = BridgeEngineInit(csv)
    /\ UNCHANGED <<band, csv, call, threads, api>>

\* bridge_engine.check_leg(start, end, vehicle_height_m)
CheckLeg ==
    /\ engine.state = "ready"
    /\ \E leg \in Legs(band), h \in VehicleHeights :
          call' = [made |-> TRUE, start |-> leg[1], end |-> leg[2],
                   vehicle_height_m |-> h,
                   result |-> check_leg(engine, leg[1], leg[2], h, Cos(band))]
    /\ UNCHANGED <<band, csv, engine, threads, api>>

Next == Construct \/ CheckLeg

Spec == Init /\ [][Next]_vars

\* ------------------------------------------- check_leg, statement by statement
\* The catalogs, legs and vehicle heights of the concurrent callers.
ThreadRows(b) ==
    { Row(Num(Pt(b, 0, 20).lat), Num(Pt(b, 0, 20).lon), Num(450)),
      Row(Num(Pt(b, 0, 70).lat), Num(Pt(b, 0, 70).lon), Num(475)),
      Row(Num(Pt(b, 0, 20).lat), Num(Pt(b, 0, 20).lon), BAD) }

ThreadFiles(b) ==
    { [exists |-> TRUE, header |-> CleanHeader, rows |-> rs] :
        rs \in SeqsUpTo(ThreadRows(b), MaxRows) }

ThreadLegs(b) == { <<Pt(b, 0, 0), Pt(b, 0, 0)>>, <<Pt(b, 0, 0), Pt(b, 0, 40)>> }

ThreadHeights == {425, 460}

\* mutant: the filter narrows the engine's own table
TableAfterFilter_InPlace(e, candidates) == [e EXCEPT !.bridges_df = candidates]

\* The engine after `candidates = self.bridges_df[mask]`: boolean indexing
\* builds a new frame bound to a local name; self.bridges_df is not assigned.
TableAfterFilter(e, candidates) == e

InitThreads ==
    /\ band \in Bands
    /\ csv \in ThreadFiles(band)
    /\ engine = Unbuilt
    /\ call = NoCall
    /\ threads = [t \in Callers |-> IdleFrame]
    /\ api = NoRequest

\* A caller enters check_leg: the box filter, and the early return.
ThreadEnter(t) ==
    /\ engine.state = "ready"
    /\ threads[t].pc \in {"idle", "done"}
    /\ \E leg \in ThreadLegs(band), h \in ThreadHeights :
          LET frame == [IdleFrame EXCEPT !.start = leg[1], !.end = leg[2],
                                         !.vehicle_height_m = h,
                                         !.overlapped =
                                             \E u \in Callers \ {t} : threads[u].pc = "loop"]
              candidates == Candidates(engine.bridges_df, leg[1], leg[2], Cos(band))
          IN  IF engine.bridges_df # <<>> /\ engine.object_cols \cap {"lat", "lon"} # {}
              THEN /\ threads' = [threads EXCEPT ![t] =
                                     [frame EXCEPT !.pc = "done", !.acc = Raised("TypeError")]]
                   /\ UNCHANGED engine
              ELSE /\ engine' = TableAfterFilter(engine, candidates)
                   /\ threads' = [threads EXCEPT ![t] =
                          IF candidates = <<>>
                          THEN [frame EXCEPT !.pc = "done", !.acc = EmptyResult]
                          ELSE [frame EXCEPT !.pc = "loop", !.candidates = candidates,
                                             !.i = 1, !.acc = LoopStart]]
    /\ UNCHANGED <<band, csv, call, api>>

\* One iteration of `for _, row in candidates.iterrows()`.
ThreadIterate(t) ==
    LET f == threads[t]
    IN  /\ f.pc = "loop"
        /\ f.i <= Len(f.candidates)
        /\ f.acc.raised = "none"
        /\ threads' = [threads EXCEPT ![t] =
               [f EXCEPT !.i = f.i + 1,
                         !.acc = LoopBody(f.acc, f.candidates[f.i],
                                          latlon_to_xy_m(f.start.lat, f.start.lon, Cos(band)),
                                          latlon_to_xy_m(f.end.lat, f.end.lon, Cos(band)),
                                          Cos(band), f.vehicle_height_m)]]
        /\ UNCHANGED <<band, csv, engine, call, api>>

\* The loop is over (or float() raised): the accumulators are the result.
ThreadReturn(t) ==
    LET f == threads[t]
    IN  /\ f.pc = "loop"
        /\ f.i > Len(f.candidates) \/ f.acc.raised # "none"
        /\ threads' = [threads EXCEPT ![t] = [f EXCEPT !.pc = "done"]]
        /\ UNCHANGED <<band, csv, engine, call, api>>

NextThreads ==
    \/ Construct
    \/ \E t \in Callers : ThreadEnter(t)
    \/ \E t \in Callers : ThreadIterate(t)
    \/ \E t \in Callers : ThreadReturn(t)

SpecThreads == InitThreads /\ [][NextThreads]_vars

\* ------------------------------------------------------- POST /api/route
MaxStops == 2

\* s.strip().upper() on the postcode texts of the requests
StripUpper(s) ==
    CASE s = " ab1 " -> "AB1"
      [] s = "cd2" -> "CD2"
      [] s = "  " -> ""
      [] OTHER -> s

DepotInputs == {" ab1 ", "  "}

StopInputs == {"cd2", " ab1 ", "  "}

\* req.vehicle_height_m (cm)
ApiHeights == {0, 425, 460}

\* the catalogs behind the server: empty, one bridge lower than the taller
\* vehicle, or one bridge that clears both vehicles by more than the margin
ApiFiles(b) ==
    { [exists |-> TRUE, header |-> CleanHeader, rows |-> rs] :
        rs \in { <<>>,
                 << Row(Num(Pt(b, 0, 20).lat), Num(Pt(b, 0, 20).lon), Num(450)) >>,
                 << Row(Num(Pt(b, 0, 20).lat), Num(Pt(b, 0, 20).lon), Num(475)) >> } }

\* the (lat, lon) the geocoder gives for a postcode
GeoPoint(b, text) == IF text = "AB1" THEN Pt(b, 0, 0) ELSE Pt(b, 0, 40)

\* what the geocoding service may answer
GeocodeAnswers == {"found", "error", "no_features"}

\* resp.status_code and the payload of the routing service
Statuses == {200, 404, 503}

Bodies == {"route", "unexpected"}

\* mutant: the car profile is tried first
Profiles_CarFirst == <<"driving-car", "driving-hgv">>

\* for profile in ["driving-hgv", "driving-car"]
Profiles == <<"driving-hgv", "driving-car">>

\* the parameters of BridgeEngine.check_leg (after self), none with a default
CheckLegParams == {"start", "end", "vehicle_height_m"}

\* the keyword arguments of the call in api_route
CheckLegKeywords == {"start_lat", "start_lon", "end_lat", "end_lon", "vehicle_height_m"}

\* Python binds a call's keywords to the parameters, or raises TypeError
Binds(keywords, params) == keywords \subseteq params /\ params \subseteq keywords

\* raise HTTPException(status_code, detail), through the handler's except clauses
Fail(a, code, detail) == [a EXCEPT !.pc = "done", !.status_code = code, !.detail = detail]

\* the request is received and validated
ApiRequest ==
    /\ engine.state = "ready"
    /\ api.pc \in {"idle", "done"}
    /\ \E key \in BOOLEAN, depot \in DepotInputs,
          stops \in SeqsUpTo(StopInputs, MaxStops), h \in ApiHeights :
          LET depot_pc == StripUpper(depot)
              stops_clean == SelectSeq([i \in 1..Len(stops) |-> StripUpper(stops[i])],
                                       LAMBDA x : x # "")
              req == [NoRequest EXCEPT !.key = key, !.depot_postcode = depot,
                                       !.stops = stops, !.vehicle_height_m = h]
          IN  api' = IF ~key THEN Fail(req, 500, "key")
                     ELSE IF depot_pc = "" THEN Fail(req, 400, "depot")
                     ELSE IF stops_clean = <<>> THEN Fail(req, 400, "stops")
                     ELSE IF h <= 0 THEN Fail(req, 400, "height")
                     ELSE [req EXCEPT !.pc = "geocode",
                                      !.postcodes = <<depot_pc>> \o stops_clean]
    /\ UNCHANGED <<band, csv, engine, call, threads>>

\* geocode_postcode for the next of the depot and the stops
Geocode ==
    /\ api.pc = "geocode"
    /\ \E answer \in GeocodeAnswers :
          LET text == StripUpper(api.postcodes[Len(api.points) + 1])
              points == Append(api.points, GeoPoint(band, text))
          IN  api' = IF ~api.key THEN Fail(api, 500, "key")
                     ELSE IF text = "" THEN Fail(api, 400, "geocode")
                     ELSE IF answer = "error" THEN Fail(api, 502, "geocode")
                     ELSE IF answer = "no_features" THEN Fail(api, 400, "geocode")
                     ELSE IF Len(points) < Len(api.postcodes)
                          THEN [api EXCEPT !.points = points]
                     ELSE [api EXCEPT !.points = points, !.pc = "main", !.idx = 0,
                                      !.requested = <<>>, !.ors = NoOutcome]
    /\ UNCHANGED <<band, csv, engine, call, threads>>

\* leg_out is appended; the loop over the legs goes on or the handler returns
LegDone(a, alt_variant) ==
    LET leg_out == [from_postcode |-> a.postcodes[a.idx + 1],
                    to_postcode |-> a.postcodes[a.idx + 2],
                    vehicle_height_m |-> a.vehicle_height_m,
                    has_low_bridges |-> a.has_low,
                    low_bridges |-> a.low_bridges,
                    main |-> a.main_metrics,
                    alternative |-> alt_variant]
        a1 == [a EXCEPT !.legs_out = Append(a.legs_out, leg_out)]
    IN  IF a.idx + 1 < Len(a.points) - 1
        THEN [a1 EXCEPT !.pc = "main", !.idx = a.idx + 1,
                        !.requested = <<>>, !.ors = NoOutcome]
        ELSE [a1 EXCEPT !.pc = "done", !.status_code = 200, !.detail = "ok"]

\* get_hgv_route_metrics returned or raised, back in api_route
RoutingDone(a, out) ==
    LET a1 == [a EXCEPT !.ors = out]
    IN  IF a.pc = "main"
        THEN IF out.outcome = "error" THEN Fail(a1, out.status_code, "routing")
             ELSE [a1 EXCEPT !.pc = "lookup", !.main_metrics = out.metrics]
        ELSE LegDone(a1, IF out.outcome = "error" THEN <<>> ELSE out.metrics)

RoutingError(code, kind, profile, status) ==
    [outcome |-> "error", status_code |-> code,
     detail |-> [kind |-> kind, profile |-> profile, status |-> status], metrics |-> <<>>]

\* _extract_summary_from_ors of the answer of `profile`
RoutingMetrics(profile) ==
    [outcome |-> "metrics", status_code |-> 200, detail |-> NoDetail,
     metrics |-> <<[profile |-> profile]>>]

\* One iteration of the loop over the profiles in get_hgv_route_metrics,
\* for the main route or for the alternative.
OrsRequest ==
    /\ api.pc \in {"main", "alt"}
    /\ \E status \in Statuses, body \in Bodies :
          LET i == Len(api.requested) + 1
              profile == Profiles[i]
              a1 == [api EXCEPT !.requested =
                        Append(api.requested, [profile |-> profile, status |-> status])]
          IN  api' = IF ~api.key
                     THEN RoutingDone(api, RoutingError(500, "key", "", 0))
                     ELSE IF status # 200
                     THEN IF i < Len(Profiles) THEN a1
                          ELSE RoutingDone(a1, RoutingError(502, "failed", profile, status))
                     ELSE IF body = "unexpected"
                     THEN RoutingDone(a1, RoutingError(502, "unexpected", "", 0))
                     ELSE RoutingDone(a1, RoutingMetrics(profile))
    /\ UNCHANGED <<band, csv, engine, call, threads>>

BridgeOut(result) ==
    [bridge_height_m |-> result.nearest_bridge[1].height_m,
     distance_from_start_m |-> result.nearest_distance_m[1],
     lat |-> result.nearest_bridge[1].lat, lon |-> result.nearest_bridge[1].lon]

\* the low-bridge lookup of the leg and what follows it up to the
\* alternative route
BridgeLookup ==
    /\ api.pc = "lookup"
    /\ api' =
         IF ~Binds(CheckLegKeywords, CheckLegParams) THEN Fail(api, 500, "server")
         ELSE
         LET result == check_leg(engine, api.points[api.idx + 1], api.points[api.idx + 2],
                                 api.vehicle_height_m, Cos(band))
         IN  IF result.raised # "none" THEN Fail(api, 500, "server")
             ELSE
             LET has_low == result.nearest_bridge # <<>> /\ result.nearest_distance_m # <<>>
                 low_bridges == IF has_low THEN <<BridgeOut(result)>> ELSE <<>>
                 a1 == [api EXCEPT !.has_low = has_low, !.low_bridges = low_bridges]
             IN  IF has_low /\ low_bridges # <<>>
                 THEN [a1 EXCEPT !.pc = "alt", !.requested = <<>>, !.ors = NoOutcome]
                 ELSE LegDone(a1, <<>>)
    /\ UNCHANGED <<band, csv, engine, call, threads>>

InitApi ==
    /\ band \in Bands
    /\ csv \in ApiFiles(band)
    /\ engine = Unbuilt
    /\ call = NoCall
    /\ threads = [t \in Callers |-> IdleFrame]
    /\ api = NoRequest

NextApi == Construct \/ ApiRequest \/ Geocode \/ OrsRequest \/ BridgeLookup

SpecApi == InitApi /\ [][NextApi]_vars

\* --------------------------------------------------------------- properties
\* The last call returned a result (it did not raise).
Returned == call.made /\ call.result.raised = "none"

LegA == latlon_to_xy_m(call.start.lat, call.start.lon, Cos(band))
LegB == latlon_to_xy_m(call.end.lat, call.end.lon, Cos(band))

\* the rows of the engine's table
DfIndex == 1..Len(engine.bridges_df)
DfRow(i) == engine.bridges_df[i]

\* squared distance of a row's bridge to the leg of the last call, over DistDen
RowDist2(r) ==
    point_to_segment_distance2(latlon_to_xy_m(r.lat.v, r.lon.v, Cos(band)), LegA, LegB)

\* the bridge is within search_radius_m of the leg
WithinRadius(r) == RowDist2(r) <= SEARCH_RADIUS * SEARCH_RADIUS * DistDen(LegA, LegB)

\* the bridge is inside the padded bounding box of the leg
InsideBox(r) ==
    /\ LatInBox(r.lat.v, call.start, call.end)
    /\ LonInBox(r.lon.v, call.start, call.end, Cos(band))

\* the bridge is one the check takes as in range: in the box and within the radius
Considered(r) == InsideBox(r) /\ WithinRadius(r)

Clearance(r) == r.height_m.v - call.vehicle_height_m

\* C1 as stated: has_conflict is true if and only if some bridge within
\* search_radius_m of the leg has clearance strictly below the conflict margin
\* (a clearance equal to the margin is no conflict).
C1_StrictConflict ==
    Returned =>
        (call.result.has_conflict <=>
            \E i \in DfIndex : /\ IsNum(DfRow(i).height_m)
                               /\ WithinRadius(DfRow(i))
                               /\ Clearance(DfRow(i)) < CONFLICT_CLEARANCE)

\* C1 amended: has_conflict is true if and only if some bridge the check takes
\* as in range (inside the padded box and within search_radius_m) has
\* clearance less than or equal to the conflict margin; a clearance equal to
\* the margin is a conflict.
C1_InclusiveConflict ==
    Returned =>
        (call.result.has_conflict <=>
            \E i \in DfIndex : /\ IsNum(DfRow(i).height_m)
                               /\ Considered(DfRow(i))
                               /\ Clearance(DfRow(i)) <= CONFLICT_CLEARANCE)

C1_Witness ==
    /\ Returned
    /\ call.result.has_conflict
    /\ \A i \in DfIndex : IsNum(DfRow(i).height_m) /\ Clearance(DfRow(i)) >= CONFLICT_CLEARANCE
    /\ \E i \in DfIndex : Considered(DfRow(i)) /\ Clearance(DfRow(i)) = CONFLICT_CLEARANCE

\* the per-bridge classes: a bridge conflicts at or below the conflict margin
\* and is near-limit above it, up to the near margin
BridgeConflicts(r) == Clearance(r) <= CONFLICT_CLEARANCE
BridgeNearLimit(r) ==
    CONFLICT_CLEARANCE < Clearance(r) /\ Clearance(r) <= NEAR_CLEARANCE

\* C2 as stated: the near-limit flag is true if and only if some in-range
\* bridge is near-limit and no in-range bridge conflicts, so has_conflict and
\* the near-limit flag are never both true.
C2_ConflictSupersedes ==
    Returned =>
        /\ call.result.near_height_limit <=>
             /\ \E i \in DfIndex : /\ IsNum(DfRow(i).height_m)
                                   /\ WithinRadius(DfRow(i))
                                   /\ BridgeNearLimit(DfRow(i))
             /\ ~ \E i \in DfIndex : /\ IsNum(DfRow(i).height_m)
                                     /\ WithinRadius(DfRow(i))
                                     /\ BridgeConflicts(DfRow(i))
        /\ ~(call.result.has_conflict /\ call.result.near_height_limit)

\* C2 amended: the near-limit flag does not yield to a conflict. It is true if
\* and only if some bridge the check takes as in range has clearance less than
\* or equal to the near margin, conflicting or not; so has_conflict implies
\* the near-limit flag.
C2_NearIncludesConflict ==
    Returned =>
        /\ call.result.near_height_limit <=>
             \E i \in DfIndex : /\ IsNum(DfRow(i).height_m)
                                /\ Considered(DfRow(i))
                                /\ Clearance(DfRow(i)) <= NEAR_CLEARANCE
        /\ call.result.has_conflict => call.result.near_height_limit

C2_Witness ==
    /\ Returned
    /\ call.result.has_conflict
    /\ call.result.near_height_limit
    /\ \A i \in DfIndex : IsNum(DfRow(i).height_m) /\ Clearance(DfRow(i)) < CONFLICT_CLEARANCE

\* the only bridge within search_radius_m of the leg is row i
OnlyInRange(i) ==
    /\ IsNum(DfRow(i).height_m)
    /\ WithinRadius(DfRow(i))
    /\ \A j \in DfIndex \ {i} : ~WithinRadius(DfRow(j))

\* the only bridge the check takes as in range is row i
OnlyConsidered(i) ==
    /\ IsNum(DfRow(i).height_m)
    /\ Considered(DfRow(i))
    /\ \A j \in DfIndex \ {i} : ~Considered(DfRow(j))

\* C3 as stated: the near-limit band is half-open. With one in-range bridge,
\* the flag is false at clearance = near margin and true for a clearance in
\* [conflict margin, near margin).
C3_HalfOpenBand ==
    Returned =>
        \A i \in DfIndex : OnlyInRange(i) =>
            /\ Clearance(DfRow(i)) = NEAR_CLEARANCE => ~call.result.near_height_limit
            /\ (CONFLICT_CLEARANCE <= Clearance(DfRow(i)) /\ Clearance(DfRow(i)) < NEAR_CLEARANCE)
                   => call.result.near_height_limit

\* C3 amended: the band is closed at the near margin. With one bridge taken as
\* in range, the near-limit flag is true exactly when its clearance is less
\* than or equal to the near margin: true at clearance = near margin, true in
\* [conflict margin, near margin), false above the near margin.
C3_ClosedBand ==
    Returned =>
        \A i \in DfIndex : OnlyConsidered(i) =>
            (call.result.near_height_limit <=> Clearance(DfRow(i)) <= NEAR_CLEARANCE)

C3_Witness ==
    /\ Returned
    /\ call.result.near_height_limit
    /\ ~call.result.has_conflict
    /\ \E i \in DfIndex : OnlyConsidered(i) /\ Clearance(DfRow(i)) = NEAR_CLEARANCE

\* the bridges of the table farther than search_radius_m from the leg
FarIndex == { i \in DfIndex : ~WithinRadius(DfRow(i)) }

\* the engine with the rows of the index set D taken out of its table
Without(D) ==
    [engine EXCEPT !.bridges_df =
        LET keep == { i \in DfIndex : i \notin D }
            RECURSIVE Pick(_)
            Pick(i) == IF i > Len(engine.bridges_df) THEN <<>>
                       ELSE IF i \in keep THEN <<DfRow(i)>> \o Pick(i + 1)
                       ELSE Pick(i + 1)
        IN  Pick(1)]

\* C4: a bridge farther than search_radius_m from the leg never influences the
\* result: the call returns what it returns on the catalog without any one
\* such bridge, and without all of them.
C4_RadiusExclusion ==
    Returned =>
        /\ call.result = check_leg(Without(FarIndex), call.start, call.end,
                                   call.vehicle_height_m, Cos(band))
        /\ \A i \in FarIndex :
              call.result = check_leg(Without({i}), call.start, call.end,
                                      call.vehicle_height_m, Cos(band))

\* a conflicting bridge in the box but beyond the radius, beside one in range
C4_Witness ==
    /\ Returned
    /\ ~call.result.has_conflict
    /\ call.result.nearest_bridge # <<>>
    /\ \E i \in FarIndex : /\ InsideBox(DfRow(i))
                           /\ IsNum(DfRow(i).height_m)
                           /\ Clearance(DfRow(i)) <= CONFLICT_CLEARANCE

AllNumeric == \A i \in DfIndex : IsNum(DfRow(i).height_m)

\* C5: the padded box holds every bridge within search_radius_m of the leg, at
\* every latitude, so the result equals the one computed over the whole
\* catalog without the pre-filter.
C5_BoxNeverUnderInclusive ==
    (Returned /\ AllNumeric) =>
        /\ \A i \in DfIndex : WithinRadius(DfRow(i)) => InsideBox(DfRow(i))
        /\ call.result = Loop(engine.bridges_df, 1, LoopStart, LegA, LegB, Cos(band),
                              call.vehicle_height_m)

\* C6: a call on a catalog with zero bridges returns no conflict, no
\* near-limit, no nearest bridge and no distance, and does not raise.
C6_EmptyCatalogFailOpen ==
    (call.made /\ engine.bridges_df = <<>>) =>
        call.result = [raised |-> "none", has_conflict |-> FALSE,
                       near_height_limit |-> FALSE, nearest_bridge |-> <<>>,
                       nearest_distance_m |-> <<>>]

C6_Witness ==
    /\ call.made
    /\ engine.state = "ready"
    /\ engine.bridges_df = <<>>
    /\ call.start # call.end
    /\ call.result.raised = "none"

\* the constructor has run (it returned or it raised)
Constructed == engine.state # "unbuilt"

\* C7: constructing the engine on a file that does not exist does not raise;
\* the engine is ready with zero bridges.
C7_MissingFileLoadsEmpty ==
    (Constructed /\ ~csv.exists) =>
        engine.state = "ready" /\ engine.bridges_df = <<>>

\* C8: constructing the engine from a source without recognisable latitude,
\* longitude or height columns does not raise; the catalog loads as empty.
C8_UnrecognisedColumnsLoadEmpty ==
    (Constructed /\ csv.exists /\ ~({"lat", "lon", "height_m"} \subseteq csv.header)) =>
        engine.state = "ready" /\ engine.bridges_df = <<>>

RowIsNumeric(r) == r.lat.k = "num" /\ r.lon.k = "num" /\ r.height_m.k = "num"

\* C9: the catalog keeps exactly the source rows whose latitude, longitude and
\* height are all numbers, in order, and no later call raises.
C9_RowValidation ==
    (Constructed /\ csv.exists /\ {"lat", "lon", "height_m"} \subseteq csv.header) =>
        /\ engine.state = "ready"
        /\ engine.bridges_df = SelectSeq(csv.rows, RowIsNumeric)
        /\ call.made => call.result.raised = "none"

\* the bridges within search_radius_m of the leg
InRangeIndex == { i \in DfIndex : IsNum(DfRow(i).height_m) /\ WithinRadius(DfRow(i)) }

\* the first row, in catalog order, at the least distance among the rows of D
FirstNearest(D) ==
    CHOOSE i \in D :
        /\ \A j \in D : RowDist2(DfRow(i)) <= RowDist2(DfRow(j))
        /\ \A j \in D : j < i => RowDist2(DfRow(i)) < RowDist2(DfRow(j))

\* C10: whenever a bridge is within search_radius_m of the leg, nearest_bridge
\* is the first bridge in catalog order at the minimum distance over all
\* in-range bridges, and nearest_distance_m is that minimum.
C10_NearestBridge ==
    (Returned /\ InRangeIndex # {}) =>
        /\ call.result.nearest_bridge = <<Bridge(DfRow(FirstNearest(InRangeIndex)))>>
        /\ call.result.nearest_distance_m = <<RowDist2(DfRow(FirstNearest(InRangeIndex)))>>

\* the risk level of a result: 0 safe, 1 near-limit, 2 conflict
RiskLevel(res) == IF res.has_conflict THEN 2 ELSE IF res.near_height_limit THEN 1 ELSE 0

Flagged(res) == res.has_conflict \/ res.near_height_limit

\* the result of the last call's leg at another vehicle height
ResultAt(h) == check_leg(engine, call.start, call.end, h, Cos(band))

\* C11: for a fixed catalog and leg and vehicle heights h1 <= h2, the risk
\* level at h2 is at least the level at h1; a conflict at h1 is a conflict at
\* h2 and a flagged result at h1 is a flagged result at h2.
C11_ConflictMonotonicity ==
    Returned =>
        \A h \in VehicleHeights : h >= call.vehicle_height_m =>
            /\ ResultAt(h).raised = "none"
            /\ RiskLevel(ResultAt(h)) >= RiskLevel(call.result)
            /\ call.result.has_conflict => ResultAt(h).has_conflict
            /\ Flagged(call.result) => Flagged(ResultAt(h))

\* a near-limit result that a taller vehicle turns into a conflict
C11_Witness ==
    /\ Returned
    /\ RiskLevel(call.result) = 1
    /\ \E h \in VehicleHeights : h > call.vehicle_height_m /\ RiskLevel(ResultAt(h)) = 2
    /\ \E h \in VehicleHeights : h < call.vehicle_height_m /\ RiskLevel(ResultAt(h)) = 0

\* every bridge of the table has a positive height
AllHeightsPositive ==
    \A i \in DfIndex : IsNum(DfRow(i).height_m) /\ DfRow(i).height_m.v > 0

\* C13 as stated: for every loadable catalog, bridges of zero or negative
\* height included, a call with vehicle_height_m <= 0 returns has_conflict =
\* false.
C13_NonPositiveNeverConflicts ==
    (Returned /\ call.vehicle_height_m <= 0) => ~call.result.has_conflict

\* C13 amended: for every catalog whose bridge heights are all positive, a
\* call with vehicle_height_m <= 0 returns has_conflict = false.
C13_NonPositiveClearsPositiveBridges ==
    (Returned /\ call.vehicle_height_m <= 0 /\ AllHeightsPositive) =>
        ~call.result.has_conflict

C13_Witness ==
    /\ Returned
    /\ call.vehicle_height_m <= 0
    /\ AllHeightsPositive
    /\ \E i \in DfIndex : Considered(DfRow(i))
    /\ ~call.result.has_conflict

\* C14: an in-range bridge whose clearance is at or below the conflict margin
\* makes the call return has_conflict = true.
C14_InclusiveThreshold ==
    Returned =>
        \A i \in DfIndex :
            (/\ IsNum(DfRow(i).height_m)
             /\ WithinRadius(DfRow(i))
             /\ Clearance(DfRow(i)) <= CONFLICT_CLEARANCE) => call.result.has_conflict

\* squared distance between two points of the plane
PointDist2(p, q) == (p[1] - q[1]) * (p[1] - q[1]) + (p[2] - q[2]) * (p[2] - q[2])

\* the computed squared distance d2 (over DistDen) of P to the segment A B is
\* the squared distance to the closest point of the segment
IsSegmentDistance(d2, p, a, b) ==
    LET seg == PointDist2(a, b)
        dot == (p[1] - a[1]) * (b[1] - a[1]) + (p[2] - a[2]) * (b[2] - a[2])
        cross == (p[1] - a[1]) * (b[2] - a[2]) - (p[2] - a[2]) * (b[1] - a[1])
    IN  /\ d2 >= 0
        /\ d2 <= PointDist2(p, a) * DistDen(a, b)
        /\ d2 <= PointDist2(p, b) * DistDen(a, b)
        /\ seg = 0 => d2 = PointDist2(p, a)
        /\ (seg > 0 /\ dot < 0) => d2 = PointDist2(p, a) * seg
        /\ (seg > 0 /\ dot > seg) => d2 = PointDist2(p, b) * seg
        /\ (seg > 0 /\ dot >= 0 /\ dot <= seg) => d2 = cross * cross

RowXY(r) == latlon_to_xy_m(r.lat.v, r.lon.v, Cos(band))

\* C15: the distance computed for every bridge of the table is the distance to
\* the closest point of the leg (t clamped to [0, 1]; |P-A| for a zero-length
\* leg), never above the distance to either end and never negative; the
\* distance a call reports for its nearest bridge is that distance.
C15_PointToSegmentDistance ==
    call.made =>
        /\ \A i \in DfIndex : IsSegmentDistance(RowDist2(DfRow(i)), RowXY(DfRow(i)), LegA, LegB)
        /\ (Returned /\ call.result.nearest_bridge # <<>>) =>
              IsSegmentDistance(call.result.nearest_distance_m[1],
                  latlon_to_xy_m(call.result.nearest_bridge[1].lat,
                                 call.result.nearest_bridge[1].lon, Cos(band)),
                  LegA, LegB)

\* a leg with a bridge beyond its end (t > 1) as the reported nearest, and a
\* second bridge beside it (0 < t < 1, off the line)
C15_Witness ==
    /\ Returned
    /\ LegA # LegB
    /\ call.result.nearest_bridge # <<>>
    /\ \E i \in DfIndex :
          /\ Bridge(DfRow(i)) = call.result.nearest_bridge[1]
          /\ RowDist2(DfRow(i)) = PointDist2(RowXY(DfRow(i)), LegB) * DistDen(LegA, LegB)
          /\ RowDist2(DfRow(i)) < PointDist2(RowXY(DfRow(i)), LegA) * DistDen(LegA, LegB)
    /\ \E i \in DfIndex :
          /\ RowDist2(DfRow(i)) > 0
          /\ RowDist2(DfRow(i)) < PointDist2(RowXY(DfRow(i)), LegA) * DistDen(LegA, LegB)
          /\ RowDist2(DfRow(i)) < PointDist2(RowXY(DfRow(i)), LegB) * DistDen(LegA, LegB)

\* C16: in a returned result nearest_bridge is None exactly when
\* nearest_distance_m is None; a flag implies a nearest bridge; a reported
\* distance lies in [0, search_radius_m] and the reported bridge has the lat,
\* lon and height of a row of the catalog.
C16_ResultWellFormed ==
    Returned =>
        /\ call.result.nearest_bridge = <<>> <=> call.result.nearest_distance_m = <<>>
        /\ Flagged(call.result) => call.result.nearest_bridge # <<>>
        /\ call.result.nearest_distance_m # <<>> =>
              /\ call.result.nearest_distance_m[1] >= 0
              /\ call.result.nearest_distance_m[1]
                     <= SEARCH_RADIUS * SEARCH_RADIUS * DistDen(LegA, LegB)
        /\ call.result.nearest_bridge # <<>> =>
              \E i \in DfIndex : /\ IsNum(DfRow(i).height_m)
                                 /\ Bridge(DfRow(i)) = call.result.nearest_bridge[1]

\* a flagged result whose nearest bridge lies exactly at the search radius
C16_Witness ==
    /\ Returned
    /\ Flagged(call.result)
    /\ call.result.nearest_bridge # <<>>
    /\ call.result.nearest_distance_m
           = <<SEARCH_RADIUS * SEARCH_RADIUS * DistDen(LegA, LegB)>>

\* ------------------------------------------------------------------- C12
\* The result of the same call made alone on the catalog as it was loaded.
Alone(f) == check_leg(BridgeEngineInit(csv), f.start, f.end, f.vehicle_height_m, Cos(band))

SameInputs(f, g) ==
    f.start = g.start /\ f.end = g.end /\ f.vehicle_height_m = g.vehicle_height_m

\* C12: check_leg leaves the engine's table as the constructor loaded it,
\* so in any interleaving of calls on one shared engine every finished call
\* has the result of the same call made alone, and two finished calls with
\* identical inputs have identical results.
C12_PureUnderInterleaving ==
    /\ engine.state = "ready" => engine = BridgeEngineInit(csv)
    /\ \A t \in Callers : threads[t].pc = "done" => threads[t].acc = Alone(threads[t])
    /\ \A t, u \in Callers :
          (threads[t].pc = "done" /\ threads[u].pc = "done"
              /\ SameInputs(threads[t], threads[u]))
          => threads[t].acc = threads[u].acc

\* Two calls that overlapped in time have both finished, on a catalog that
\* the filter of one of them narrowed, with different results.
C12_Witness ==
    /\ threads[1].pc = "done" /\ threads[2].pc = "done"
    /\ threads[1].overlapped
    /\ Len(threads[1].candidates) = 1 /\ Len(engine.bridges_df) = 2
    /\ threads[1].acc.has_conflict
    /\ threads[2].acc.raised = "none" /\ ~threads[2].acc.has_conflict
    /\ threads[2].acc.nearest_bridge # <<>>

\* ------------------------------------------------------------------- C17
\* C17: driving-hgv is requested first; driving-car only after driving-hgv
\* answered non-200; nothing is requested after a 200 and the metrics are
\* those of the profile that answered it; two non-200 answers end the call
\* with a 502 whose detail carries the driving-car failure.
C17_ProfileFallbackOrder ==
    LET r == api.requested
        n == Len(api.requested)
    IN  /\ n >= 1 => r[1].profile = "driving-hgv"
        /\ \A i \in 1..n : r[i].profile = "driving-car" =>
               i = 2 /\ r[1].profile = "driving-hgv" /\ r[1].status # 200
        /\ \A i \in 1..(n - 1) : r[i].status # 200
        /\ api.ors.outcome = "metrics" =>
               n >= 1 /\ r[n].status = 200
                      /\ api.ors.metrics = <<[profile |-> r[n].profile]>>
        /\ (n >= 1 /\ r[n].status = 200) => api.ors.outcome # "none"
        /\ (n = 2 /\ r[1].status # 200 /\ r[2].status # 200) =>
               /\ api.ors.outcome = "error"
               /\ api.ors.status_code = 502
               /\ api.ors.detail = [kind |-> "failed", profile |-> "driving-car",
                                     status |-> r[2].status]

\* driving-hgv answered 404, driving-car was then asked and answered 200,
\* and its metrics were returned.
C17_Witness ==
    /\ Len(api.requested) = 2
    /\ api.requested[1] = [profile |-> "driving-hgv", status |-> 404]
    /\ api.requested[2] = [profile |-> "driving-car", status |-> 200]
    /\ api.ors.outcome = "metrics"
    /\ api.ors.metrics = <<[profile |-> "driving-car"]>>

\* ------------------------------------------------------------------- C18
\* The request passes the handler's validation.
ValidRequest ==
    /\ api.key
    /\ StripUpper(api.depot_postcode) # ""
    /\ \E i \in 1..Len(api.stops) : StripUpper(api.stops[i]) # ""
    /\ api.vehicle_height_m > 0

\* The handler has answered, and no geocoding call and no routing call of
\* the main route failed.
ServicesAnswered == api.pc = "done" /\ api.detail \notin {"geocode", "routing"}

\* the number of non-blank stops
StopCount == Cardinality({ i \in 1..Len(api.stops) : StripUpper(api.stops[i]) # "" })

\* the engine's result for leg i (1-based) of the request
EngineResult(i) ==
    check_leg(engine, api.points[i], api.points[i + 1], api.vehicle_height_m, Cos(band))

\* C18: a valid request whose geocoding and main routing calls all succeed
\* is answered 200 with one leg per stop, in stop order, leg i going from
\* postcode i to postcode i+1, with the engine's result for that leg.
C18_ValidRequestSucceeds ==
    (ValidRequest /\ ServicesAnswered) =>
        /\ api.status_code = 200
        /\ Len(api.legs_out) = StopCount
        /\ \A i \in 1..Len(api.legs_out) :
              /\ api.legs_out[i].from_postcode = api.postcodes[i]
              /\ api.legs_out[i].to_postcode = api.postcodes[i + 1]
              /\ api.legs_out[i].vehicle_height_m = api.vehicle_height_m
              /\ EngineResult(i).raised = "none"
              /\ \A j \in 1..Len(api.legs_out[i].low_bridges) :
                    <<[lat |-> api.legs_out[i].low_bridges[j].lat,
                       lon |-> api.legs_out[i].low_bridges[j].lon,
                       height_m |-> api.legs_out[i].low_bridges[j].bridge_height_m]>>
                        = EngineResult(i).nearest_bridge

\* ------------------------------------------------------------------- C19
\* C19: a returned leg has has_low_bridges only if the engine's result for
\* it has has_conflict or near_height_limit; a leg whose in-range bridges
\* all clear the vehicle by more than the near margin is returned with
\* has_low_bridges false and an empty low_bridges list.
C19_LowBridgesOnlyIfFlagged ==
    /\ \A i \in 1..Len(api.legs_out) :
          api.legs_out[i].has_low_bridges => Flagged(EngineResult(i))
    /\ (ValidRequest /\ ServicesAnswered) =>
          \A i \in 1..StopCount :
              (EngineResult(i).raised = "none" /\ EngineResult(i).nearest_bridge # <<>>
                  /\ ~Flagged(EngineResult(i)))
              => /\ Len(api.legs_out) >= i
                 /\ ~api.legs_out[i].has_low_bridges
                 /\ api.legs_out[i].low_bridges = <<>>

\* ------------------------------------------------------------------- C20
\* C20: a leg with a low bridge is returned whatever the alternative routing
\* request answers, the legs after it are processed and the request does not
\* fail; only legs with has_low_bridges carry an alternative.
C20_AlternativeFailureNonFatal ==
    /\ \A i \in 1..Len(api.legs_out) :
          api.legs_out[i].alternative # <<>> => api.legs_out[i].has_low_bridges
    /\ (ValidRequest /\ ServicesAnswered
            /\ \E i \in 1..StopCount : EngineResult(i).nearest_bridge # <<>>)
        => /\ api.status_code = 200
           /\ Len(api.legs_out) = StopCount
====
